---------------------------- MODULE Spec2Model ----------------------------
(***************************************************************************)
(* A model of the battery savings calculator: the data handlers            *)
(* (src/src/data_ingestion), the tariff parser and the savings engine      *)
(* (src/src/analysis/savings_calculator.py).                               *)
(*                                                                         *)
(* Numbers.  A Python/numpy float is modelled as an exact rational         *)
(* [k |-> "num", n, d] (n/d in lowest terms, d > 0), or NaN, or a signed   *)
(* infinity; arithmetic follows IEEE-754 for the special values and is     *)
(* exact otherwise (rounding error is not modelled).                       *)
(***************************************************************************)
EXTENDS Integers, Sequences, FiniteSets, TLC

VARIABLES
    batteryFile,   \* the battery data file on disk (never written by the program)
    marketFile,    \* the market data file on disk
    tariffFile,    \* the tariff PDF on disk
    batteryData,   \* BatteryDataHandler.data
    marketData,    \* MarketDataHandler.data
    tariffData,    \* TariffParser.tariff_data
    args,          \* the arguments of a direct _calculate_savings_breakdown call
    call,          \* the last completed call and what it returned
    first,         \* the first calculate_monthly_savings call and what it returned
    loads          \* how often each file was read in so far, counted up to MaxLoads

vars == <<batteryFile, marketFile, tariffFile, batteryData, marketData,
          tariffData, args, call, first, loads>>

\* Python's None.
None == [op |-> "none"]

---------------------------------------------------------------------------
(* Floats *)

RECURSIVE Gcd(_, _)
Gcd(a, b) == IF b = 0 THEN a ELSE Gcd(b, a % b)

Abs(x) == IF x < 0 THEN -x ELSE x

Sign(x) == IF x < 0 THEN -1 ELSE IF x > 0 THEN 1 ELSE 0

NaN == [k |-> "nan", n |-> 0, d |-> 1]

Inf(s) == [k |-> "inf", n |-> s, d |-> 1]

\* The float n/d, d # 0, in lowest terms.
Rat(n, d) ==
    LET g == Gcd(Abs(n), Abs(d))
    IN  [k |-> "num", n |-> Sign(d) * (n \div g), d |-> Abs(d) \div g]

Num(n) == Rat(n, 1)

Zero == Num(0)

FNeg(a) == IF a.k = "nan" THEN NaN ELSE [a EXCEPT !.n = -a.n]

FAdd(a, b) ==
    IF a.k = "nan" \/ b.k = "nan" THEN NaN
    ELSE IF a.k = "inf" /\ b.k = "inf" THEN (IF a.n = b.n THEN a ELSE NaN)
    ELSE IF a.k = "inf" THEN a
    ELSE IF b.k = "inf" THEN b
    ELSE Rat(a.n * b.d + b.n * a.d, a.d * b.d)

FSub(a, b) == FAdd(a, FNeg(b))

FMul(a, b) ==
    IF a.k = "nan" \/ b.k = "nan" THEN NaN
    ELSE IF a.k = "inf" \/ b.k = "inf"
         THEN (IF a.n = 0 \/ b.n = 0 THEN NaN ELSE Inf(Sign(a.n) * Sign(b.n)))
    ELSE Rat(a.n * b.n, a.d * b.d)

\* numpy float64 division: x/0 is a signed infinity, 0/0 is NaN, no exception.
FDiv(a, b) ==
    IF a.k = "nan" \/ b.k = "nan" THEN NaN
    ELSE IF b.k = "inf" THEN (IF a.k = "inf" THEN NaN ELSE Zero)
    ELSE IF a.k = "inf" THEN Inf(IF b.n < 0 THEN -a.n ELSE a.n)
    ELSE IF b.n = 0 THEN (IF a.n = 0 THEN NaN ELSE Inf(Sign(a.n)))
    ELSE Rat(a.n * b.d, a.d * b.n)

\* a > b; every comparison with NaN is false.
FGt(a, b) ==
    IF a.k = "nan" \/ b.k = "nan" THEN FALSE
    ELSE IF a.k = "inf" THEN a.n > 0 /\ ~(b.k = "inf" /\ b.n > 0)
    ELSE IF b.k = "inf" THEN b.n < 0
    ELSE a.n * b.d > b.n * a.d

\* a <= b.
FLe(a, b) == a.k # "nan" /\ b.k # "nan" /\ ~FGt(a, b)

\* Python's a == b on floats: NaN equals nothing, itself included.
FEq(a, b) == a.k # "nan" /\ b.k # "nan" /\ a = b

---------------------------------------------------------------------------
(* datetime *)

DateTime(y, mo, d, h, mi, s, us) ==
    [year |-> y, month |-> mo, day |-> d, hour |-> h, minute |-> mi,
     second |-> s, microsecond |-> us]

DtKey(t) == <<t.year, t.month, t.day, t.hour, t.minute, t.second, t.microsecond>>

\* datetime's a < b: the fields compared in order.
RECURSIVE LexLess(_, _, _)
LexLess(s, t, i) ==
    IF i > Len(s) THEN FALSE
    ELSE IF s[i] # t[i] THEN s[i] < t[i]
    ELSE LexLess(s, t, i + 1)

DtLess(a, b) == a # b /\ LexLess(DtKey(a), DtKey(b), 1)

DtLe(a, b) == a = b \/ DtLess(a, b)

---------------------------------------------------------------------------
(* pandas Series: a sequence of [ts |-> label, v |-> float], in index order *)

Range(s) == {s[i] : i \in 1..Len(s)}

\* series.index
Index(series) == [i \in 1..Len(series) |-> series[i].ts]

\* Index.intersection(other) on duplicate-free indexes: the labels of self
\* that other holds too, in self's order.
IndexIntersection(self, other) ==
    SelectSeq(self, LAMBDA t : t \in Range(other))

\* series[label] for a label the index holds.
At(series, label) == (CHOOSE i \in 1..Len(series) : series[i].ts = label)

\* series[index]: the rows of the labels of index, in index's order.
GetItem(series, index) ==
    [i \in 1..Len(index) |-> series[At(series, index[i])]]

\* (a * b) for two series over the same index.
SeriesMul(a, b) == [i \in 1..Len(a) |-> [ts |-> a[i].ts, v |-> FMul(a[i].v, b[i].v)]]

RECURSIVE SumFrom(_, _)
SumFrom(series, i) ==
    IF i > Len(series) THEN Zero ELSE FAdd(series[i].v, SumFrom(series, i + 1))

\* series.sum(): 0 on an empty series.
SeriesSum(series) == SumFrom(series, 1)

RECURSIVE MaxFrom(_, _)
MaxFrom(series, i) ==
    IF i = Len(series) THEN series[i].v
    ELSE LET m == MaxFrom(series, i + 1)
         IN  IF FGt(series[i].v, m) THEN series[i].v ELSE m

\* series.max(): NaN on an empty series.
SeriesMax(series) == IF Len(series) = 0 THEN NaN ELSE MaxFrom(series, 1)

RECURSIVE MinFrom(_, _)
MinFrom(series, i) ==
    IF i = Len(series) THEN series[i].v
    ELSE LET m == MinFrom(series, i + 1)
         IN  IF FGt(m, series[i].v) THEN series[i].v ELSE m

\* series.min(): NaN on an empty series.
SeriesMin(series) == IF Len(series) = 0 THEN NaN ELSE MinFrom(series, 1)

\* series.mean(): NaN on an empty series (0/0).
SeriesMean(series) == FDiv(SeriesSum(series), Num(Len(series)))

---------------------------------------------------------------------------
(* SavingsCalculator: the breakdown engine *)

\* A call that raised.
Raise(e) == [ok |-> FALSE, error |-> e]

\* A call that returned v.
Return(v) == [ok |-> TRUE, value |-> v]

\* Mutant: the last demand_peak entry taken instead of the first.
NextDemandPeakLast(rates, i) ==
    LET found == {j \in i..Len(rates) : "type" \in DOMAIN rates[j] /\
                                         rates[j].type = "demand_peak"}
        last == CHOOSE j \in found : \A k \in found : k <= j
    IN  IF \E j \in i..Len(rates) : "type" \notin DOMAIN rates[j] THEN Raise("KeyError")
        ELSE IF found = {} THEN Return(Zero)
        ELSE IF "value" \in DOMAIN rates[last] THEN Return(rates[last].value)
        ELSE Raise("KeyError")

\* next((rate['value'] for rate in rates if rate['type'] == 'demand_peak'), 0):
\* the entries are visited in order; an entry without 'type' raises KeyError
\* when visited, a demand_peak entry without 'value' raises KeyError, and the
\* first demand_peak entry ends the search.
RECURSIVE NextDemandPeak(_, _)
NextDemandPeak(rates, i) ==
    IF i > Len(rates) THEN Return(Zero)
    ELSE IF "type" \notin DOMAIN rates[i] THEN Raise("KeyError")
    ELSE IF rates[i].type = "demand_peak"
         THEN (IF "value" \in DOMAIN rates[i]
               THEN Return(rates[i].value) ELSE Raise("KeyError"))
    ELSE NextDemandPeak(rates, i + 1)

\* The assumed peak reduction: peak_with_battery = peak_without_battery * 0.8.
PeakFactor == Rat(8, 10)

\* Mutant: the two costs subtracted the wrong way round.
CalculateEnergyCostSavingsSwapped(charge_data, discharge_data, price_data, rates, time_periods) ==
    LET cost_without_battery == SeriesSum(SeriesMul(discharge_data, price_data))
        cost_with_battery    == SeriesSum(SeriesMul(charge_data, price_data))
    IN  FSub(cost_with_battery, cost_without_battery)

CalculateEnergyCostSavings(charge_data, discharge_data, price_data, rates, time_periods) ==
    LET cost_without_battery == SeriesSum(SeriesMul(discharge_data, price_data))
        cost_with_battery    == SeriesSum(SeriesMul(charge_data, price_data))
    IN  FSub(cost_without_battery, cost_with_battery)

\* Mutant: the reduced peak charged instead of the reduction.
CalculateDemandChargeSavingsOfReducedPeak(discharge_data, rates) ==
    LET peak_rate == NextDemandPeak(rates, 1)
        peak_without_battery == SeriesMax(discharge_data)
        peak_with_battery    == FMul(peak_without_battery, PeakFactor)
    IN  IF ~peak_rate.ok THEN peak_rate
        ELSE [ok |-> TRUE, peak_rate |-> peak_rate.value,
              value |-> FMul(peak_with_battery, peak_rate.value)]

\* _calculate_demand_charge_savings: [ok, value, peak_rate] or [ok, error];
\* peak_rate is the local of that name, which the code does not return.
CalculateDemandChargeSavings(discharge_data, rates) ==
    LET peak_rate == NextDemandPeak(rates, 1)
        peak_without_battery == SeriesMax(discharge_data)
        peak_with_battery    == FMul(peak_without_battery, PeakFactor)
    IN  IF ~peak_rate.ok THEN peak_rate
        ELSE [ok |-> TRUE, peak_rate |-> peak_rate.value,
              value |-> FMul(FSub(peak_without_battery, peak_with_battery),
                             peak_rate.value)]

\* Mutant: a grid-support revenue of 5 % of the energy discharged.
CalculateOtherSavingsGridSupport(discharge_data, rates) ==
    FMul(SeriesSum(discharge_data), Rat(5, 100))

\* _calculate_other_savings: the placeholder 0.0.
CalculateOtherSavings(discharge_data, rates) == Zero

\* Mutant: the price index left out of the intersection.
CommonIndexBatteryOnly(charge_data, discharge_data, price_data) ==
    IndexIntersection(Index(charge_data), Index(discharge_data))

\* common_index of _calculate_savings_breakdown.
CommonIndex(charge_data, discharge_data, price_data) ==
    IndexIntersection(IndexIntersection(Index(charge_data), Index(discharge_data)),
                      Index(price_data))

\* Mutant: the division without its guard.
EnergyCostReductionUnguarded(energy_cost_savings, total_energy_cost) ==
    FMul(FDiv(energy_cost_savings, total_energy_cost), Num(100))

\* energy_cost_reduction: the division is guarded by total_energy_cost > 0.
EnergyCostReduction(energy_cost_savings, total_energy_cost) ==
    IF FGt(total_energy_cost, Zero)
    THEN FMul(FDiv(energy_cost_savings, total_energy_cost), Num(100))
    ELSE Zero

\* Mutant: the peak set against the sum of the discharge, not its mean.
PeakDemandReductionOverSum(discharge_data) ==
    LET peak_demand == SeriesMax(discharge_data)
    IN  IF FGt(peak_demand, Zero)
        THEN FMul(FDiv(peak_demand, FAdd(peak_demand, SeriesSum(discharge_data))), Num(100))
        ELSE Zero

\* peak_demand_reduction: guarded by peak_demand > 0.
PeakDemandReduction(discharge_data) ==
    LET peak_demand == SeriesMax(discharge_data)
    IN  IF FGt(peak_demand, Zero)
        THEN FMul(FDiv(peak_demand, FAdd(peak_demand, SeriesMean(discharge_data))), Num(100))
        ELSE Zero

\* The dict _calculate_savings_breakdown returns.
BreakdownDict(energy_cost_savings, demand_charge_savings, other_savings, total_savings, energy_cost_reduction, peak_demand_reduction) ==
    [energy_cost_savings   |-> energy_cost_savings,
     demand_charge_savings |-> demand_charge_savings,
     other_savings         |-> other_savings,
     total_savings         |-> total_savings,
     energy_cost_reduction |-> energy_cost_reduction,
     peak_demand_reduction |-> peak_demand_reduction]

\* _calculate_savings_breakdown.  The result also carries the aligned series
\* (the locals after line 91) and the demand-peak rate looked up, which the
\* code does not return, so that they can be observed; aligned is None when
\* a label lookup raised KeyError.
CalculateSavingsBreakdown(charge_data0, discharge_data0, price_data0, rates, time_periods) ==
    LET common_index == CommonIndex(charge_data0, discharge_data0, price_data0)
        held(series) == Range(common_index) \subseteq Range(Index(series))
    IN  IF ~(held(charge_data0) /\ held(discharge_data0) /\ held(price_data0))
        THEN [ok |-> FALSE, error |-> "KeyError", aligned |-> None]
        ELSE
        LET charge_data    == GetItem(charge_data0, common_index)
            discharge_data == GetItem(discharge_data0, common_index)
            price_data     == GetItem(price_data0, common_index)
            aligned == [op |-> "aligned", charge |-> charge_data,
                        discharge |-> discharge_data, price |-> price_data]
            energy_cost_savings ==
                CalculateEnergyCostSavings(charge_data, discharge_data, price_data,
                                           rates, time_periods)
            demand == CalculateDemandChargeSavings(discharge_data, rates)
        IN  IF ~demand.ok
            THEN [ok |-> FALSE, error |-> demand.error, aligned |-> aligned]
            ELSE
            LET demand_charge_savings == demand.value
                other_savings == CalculateOtherSavings(discharge_data, rates)
                total_savings ==
                    FAdd(FAdd(energy_cost_savings, demand_charge_savings), other_savings)
                total_energy_cost == SeriesSum(SeriesMul(charge_data, price_data))
                energy_cost_reduction ==
                    EnergyCostReduction(energy_cost_savings, total_energy_cost)
                peak_demand_reduction == PeakDemandReduction(discharge_data)
            IN  [ok |-> TRUE,
                 value |-> BreakdownDict(energy_cost_savings, demand_charge_savings,
                                         other_savings, total_savings,
                                         energy_cost_reduction, peak_demand_reduction),
                 peak_rate |-> demand.peak_rate,
                 aligned |-> aligned]

---------------------------------------------------------------------------
(* Data files and pandas DataFrames *)

\* A data file: [ext, readable, columns, rows], each row a function from the
\* columns to cells.  A timestamp cell is the text of a date and time, held
\* as its fields <<year, month, day, hour, minute, second>>; the other cells
\* are numbers.

IsLeap(y) == (y % 4 = 0 /\ y % 100 # 0) \/ y % 400 = 0

DaysInMonth(y, m) ==
    IF m = 2 THEN (IF IsLeap(y) THEN 29 ELSE 28)
    ELSE IF m \in {4, 6, 9, 11} THEN 30 ELSE 31

\* pd.to_datetime on one cell: the text is parsed field by field and raises
\* on a date or time that does not exist.
ToDatetime(cell) ==
    IF /\ cell[2] \in 1..12
       /\ cell[3] >= 1 /\ cell[3] <= DaysInMonth(cell[1], cell[2])
       /\ cell[4] \in 0..23 /\ cell[5] \in 0..59 /\ cell[6] \in 0..59
    THEN Return(DateTime(cell[1], cell[2], cell[3], cell[4], cell[5], cell[6], 0))
    ELSE Raise("ValueError")

\* A DataFrame: [op |-> "frame", index, columns, rows]; index is "range"
\* (the default RangeIndex) or "timestamp" (a DatetimeIndex); each row is
\* [ts |-> its index label, cols |-> its cells by column].
Frame(index, columns, rows) ==
    [op |-> "frame", index |-> index, columns |-> columns, rows |-> rows]

\* pd.read_csv / pd.read_json: the rows in file order under a RangeIndex.
ReadFile(file) ==
    Frame("range", file.columns,
          [i \in 1..Len(file.rows) |-> [ts |-> [pos |-> i - 1], cols |-> file.rows[i]]])

\* The rows in ascending order of their labels.
RECURSIVE SortRows(_)
SortRows(rows) ==
    IF Len(rows) <= 1 THEN rows
    ELSE LET pivot == rows[1]
             rest  == Tail(rows)
             lo == SelectSeq(rest, LAMBDA r : DtLess(r.ts, pivot.ts))
             hi == SelectSeq(rest, LAMBDA r : ~DtLess(r.ts, pivot.ts))
         IN  SortRows(lo) \o <<pivot>> \o SortRows(hi)

\* data.sort_index(inplace=True): a RangeIndex is sorted already.
SortIndex(frame) ==
    IF frame.index = "range" THEN frame
    ELSE [frame EXCEPT !.rows = SortRows(frame.rows)]

\* data['timestamp'] = pd.to_datetime(data['timestamp']) followed by
\* data.set_index('timestamp', inplace=True).
SetTimestampIndex(frame) ==
    Frame("timestamp", frame.columns \ {"timestamp"},
          [i \in 1..Len(frame.rows) |->
              [ts   |-> ToDatetime(frame.rows[i].cols["timestamp"]).value,
               cols |-> [c \in frame.columns \ {"timestamp"} |-> frame.rows[i].cols[c]]]])

\* Mutant: a path that ends in neither .csv nor .json read as CSV.
LoadDataAssumeCsv(file, data) ==
    IF ~file.readable
    THEN [ok |-> FALSE, error |-> "Exception", cause |-> "OSError",
          names_path |-> TRUE, read |-> TRUE, data |-> data]
    ELSE LET raw == ReadFile(file)
         IN  IF "timestamp" \notin raw.columns
             THEN [ok |-> TRUE, read |-> TRUE, data |-> SortIndex(raw)]
             ELSE IF \E i \in 1..Len(raw.rows) : ~ToDatetime(raw.rows[i].cols["timestamp"]).ok
             THEN [ok |-> FALSE, error |-> "Exception", cause |-> "ValueError",
                   names_path |-> FALSE, read |-> TRUE, data |-> raw]
             ELSE [ok |-> TRUE, read |-> TRUE, data |-> SortIndex(SetTimestampIndex(raw))]

\* load_data of both handlers: [ok, error, cause, names_path, read, data], data
\* being self.data when the call ends.  self.data is assigned as soon as the
\* file is read, before the timestamps are converted.  Every exception e is
\* re-raised as Exception("Error loading ... data: " + str(e)): cause is the
\* exception whose text the message carries, names_path tells whether that
\* text holds the path (the text of an OSError does, the texts of the two
\* ValueErrors do not), and read tells whether a read of the file was attempted.
LoadData(file, data) ==
    IF file.ext \notin {"csv", "json"}
    THEN [ok |-> FALSE, error |-> "Exception", cause |-> "ValueError",
          names_path |-> FALSE, read |-> FALSE, data |-> data]
    ELSE IF ~file.readable
    THEN [ok |-> FALSE, error |-> "Exception", cause |-> "OSError",
          names_path |-> TRUE, read |-> TRUE, data |-> data]
    ELSE LET raw == ReadFile(file)
         IN  IF "timestamp" \notin raw.columns
             THEN [ok |-> TRUE, read |-> TRUE, data |-> SortIndex(raw)]
             ELSE IF \E i \in 1..Len(raw.rows) : ~ToDatetime(raw.rows[i].cols["timestamp"]).ok
             THEN [ok |-> FALSE, error |-> "Exception", cause |-> "ValueError",
                   names_path |-> FALSE, read |-> TRUE, data |-> raw]
             ELSE [ok |-> TRUE, read |-> TRUE, data |-> SortIndex(SetTimestampIndex(raw))]

\* Mutant: the load made on every use.
EnsureLoadedAlways(file, data) == LoadData(file, data)

\* if self.data is None: self.load_data()
EnsureLoaded(file, data) ==
    IF data = None THEN LoadData(file, data)
    ELSE [ok |-> TRUE, read |-> FALSE, data |-> data]

\* frame[column] as a Series.
Column(frame, column) ==
    [i \in 1..Len(frame.rows) |-> [ts |-> frame.rows[i].ts, v |-> frame.rows[i].cols[column]]]

\* return self.data[column], l being what the load on first use gave.
ColumnOfLoaded(l, column) ==
    IF ~l.ok THEN l
    ELSE IF column \notin l.data.columns
    THEN [ok |-> FALSE, error |-> "KeyError", read |-> l.read, data |-> l.data]
    ELSE [ok |-> TRUE, value |-> Column(l.data, column), read |-> l.read, data |-> l.data]

\* get_charge_data, get_discharge_data, get_soc_data, get_price_data:
\* [ok, value, data], or [ok, error, data].
GetColumnData(file, data, column) == ColumnOfLoaded(EnsureLoaded(file, data), column)

GetChargeData(file, data) == GetColumnData(file, data, "charge_power")

GetDischargeData(file, data) == GetColumnData(file, data, "discharge_power")

GetPriceData(file, data) == GetColumnData(file, data, "price")

---------------------------------------------------------------------------
(* get_monthly_summary *)

\* month.replace(day=1, hour=0, minute=0, second=0, microsecond=0)
MonthStart(month) ==
    [month EXCEPT !.day = 1, !.hour = 0, !.minute = 0, !.second = 0, !.microsecond = 0]

\* Mutant: December followed by January of the same year.
MonthEndSameYear(month) ==
    [month EXCEPT !.month = (month.month % 12) + 1, !.day = 1, !.hour = 0,
                  !.minute = 0, !.second = 0, !.microsecond = 0]

\* month_end: the first day of the next month, of the next year after December.
MonthEnd(month) ==
    IF month.month = 12
    THEN [month EXCEPT !.year = month.year + 1, !.month = 1, !.day = 1, !.hour = 0,
                       !.minute = 0, !.second = 0, !.microsecond = 0]
    ELSE [month EXCEPT !.month = month.month + 1, !.day = 1, !.hour = 0,
                       !.minute = 0, !.second = 0, !.microsecond = 0]

\* frame[month_start:month_end] on a sorted DatetimeIndex: a label slice,
\* which pandas takes with both ends included.
SliceRows(frame, month_start, month_end) ==
    SelectSeq(frame.rows, LAMBDA r : DtLe(month_start, r.ts) /\ DtLe(r.ts, month_end))

\* len(series[series > bound])
CountAbove(series, bound) ==
    Cardinality({i \in 1..Len(series) : FGt(series[i].v, bound)})

\* len(series[series <= bound])
CountNotAbove(series, bound) ==
    Cardinality({i \in 1..Len(series) : FLe(series[i].v, bound)})

\* The square root taken by std(), kept symbolic: Sqrt(x) is the root of x.
Sqrt(x) == IF x.k = "num" THEN [k |-> "sqrt", n |-> x.n, d |-> x.d] ELSE x

\* series.std(): the sample standard deviation, NaN below two values.
SeriesStd(series) ==
    IF Len(series) < 2 THEN NaN
    ELSE LET mean == SeriesMean(series)
             sq == [i \in 1..Len(series) |->
                       [ts |-> series[i].ts,
                        v |-> FMul(FSub(series[i].v, mean), FSub(series[i].v, mean))]]
         IN  Sqrt(FDiv(SeriesSum(sq), Num(Len(series) - 1)))

\* The dict BatteryDataHandler.get_monthly_summary builds from month_data.
BatterySummaryOf(month_data) ==
    [total_charge     |-> SeriesSum(Column(month_data, "charge_power")),
     total_discharge  |-> SeriesSum(Column(month_data, "discharge_power")),
     avg_soc          |-> SeriesMean(Column(month_data, "state_of_charge")),
     max_soc          |-> SeriesMax(Column(month_data, "state_of_charge")),
     min_soc          |-> SeriesMin(Column(month_data, "state_of_charge")),
     charge_cycles    |-> CountAbove(Column(month_data, "charge_power"), Zero),
     discharge_cycles |-> CountAbove(Column(month_data, "discharge_power"), Zero)]

\* The dict MarketDataHandler.get_monthly_summary builds from month_data.
MarketSummaryOf(month_data) ==
    LET price == Column(month_data, "price")
    IN  [avg_price      |-> SeriesMean(price),
         max_price      |-> SeriesMax(price),
         min_price      |-> SeriesMin(price),
         price_std      |-> SeriesStd(price),
         peak_hours     |-> CountAbove(price, SeriesMean(price)),
         off_peak_hours |-> CountNotAbove(price, SeriesMean(price))]

\* Mutant: the slice stored back into self.data.
MonthDataNarrowing(file, data, month, needed) ==
    LET l == EnsureLoaded(file, data)
        month_data == [l.data EXCEPT
                         !.rows = SliceRows(l.data, MonthStart(month), MonthEnd(month))]
    IN  IF ~l.ok THEN l
        ELSE IF l.data.index # "timestamp"
        THEN [ok |-> FALSE, error |-> "TypeError", read |-> l.read, data |-> l.data]
        ELSE IF ~(needed \subseteq l.data.columns)
        THEN [ok |-> FALSE, error |-> "KeyError", read |-> l.read, data |-> l.data]
        ELSE [ok |-> TRUE, read |-> l.read, data |-> month_data,
              window |-> [start |-> MonthStart(month), end |-> MonthEnd(month)],
              month_data |-> month_data]

\* The window and the slice of get_monthly_summary, l being what the load on
\* first use gave.
MonthDataOfLoaded(l, month, needed) ==
    IF ~l.ok THEN l
    ELSE IF l.data.index # "timestamp"
    THEN [ok |-> FALSE, error |-> "TypeError", read |-> l.read, data |-> l.data]
    ELSE IF ~(needed \subseteq l.data.columns)
    THEN [ok |-> FALSE, error |-> "KeyError", read |-> l.read, data |-> l.data]
    ELSE [ok |-> TRUE, read |-> l.read, data |-> l.data,
          window |-> [start |-> MonthStart(month), end |-> MonthEnd(month)],
          month_data |-> [l.data EXCEPT
                            !.rows = SliceRows(l.data, MonthStart(month), MonthEnd(month))]]

\* The part of get_monthly_summary both handlers share: load on first use,
\* resolve the window, slice.  [ok, month_data, window, data] or [ok, error, data].
MonthData(file, data, month, needed) ==
    MonthDataOfLoaded(EnsureLoaded(file, data), month, needed)

\* BatteryDataHandler.get_monthly_summary(month)
BatteryGetMonthlySummary(file, data, month) ==
    LET m == MonthData(file, data, month, {"charge_power", "discharge_power", "state_of_charge"})
    IN  IF ~m.ok THEN m
        ELSE [ok |-> TRUE, read |-> m.read, data |-> m.data, window |-> m.window,
              value |-> BatterySummaryOf(m.month_data)]

\* MarketDataHandler.get_monthly_summary(month)
MarketGetMonthlySummary(file, data, month) ==
    LET m == MonthData(file, data, month, {"price"})
    IN  IF ~m.ok THEN m
        ELSE [ok |-> TRUE, read |-> m.read, data |-> m.data, window |-> m.window,
              value |-> MarketSummaryOf(m.month_data)]

---------------------------------------------------------------------------
(* TariffParser *)

\* A tariff document: [openable, pages], pages being what its text states,
\* held as the rate entries a reader would take from it.

\* Mutant: the rates the pages state taken into the table.
ParsePdfTakingRates(file, tariff_data) ==
    IF ~file.openable
    THEN [ok |-> FALSE, error |-> "Exception", parsed |-> FALSE, tariff_data |-> tariff_data]
    ELSE LET parsed == [rates |-> file.pages, time_periods |-> <<>>,
                        conditions |-> <<>>, metadata |-> <<>>]
         IN  [ok |-> TRUE, value |-> parsed, parsed |-> TRUE, tariff_data |-> parsed]

\* parse_pdf: [ok, value, parsed, tariff_data] or [ok, error, parsed,
\* tariff_data].  Every page's text is extracted and dropped: the table is
\* always the empty one.  parsed tells whether the document was opened and
\* its pages gone through.
ParsePdf(file, tariff_data) ==
    IF ~file.openable
    THEN [ok |-> FALSE, error |-> "Exception", parsed |-> FALSE, tariff_data |-> tariff_data]
    ELSE LET parsed == [rates |-> <<>>, time_periods |-> <<>>,
                        conditions |-> <<>>, metadata |-> <<>>]
         IN  [ok |-> TRUE, value |-> parsed, parsed |-> TRUE, tariff_data |-> parsed]

\* tariff_data[key], p being what the parse on first use gave.
TariffFieldOfParsed(p, key) ==
    IF ~p.ok THEN p
    ELSE [ok |-> TRUE, value |-> p.tariff_data[key], parsed |-> p.parsed,
          tariff_data |-> p.tariff_data]

\* get_rates / get_time_periods: parse on first use, then tariff_data[key].
GetTariffField(file, tariff_data, key) ==
    TariffFieldOfParsed(IF tariff_data = None THEN ParsePdf(file, tariff_data)
                        ELSE [ok |-> TRUE, parsed |-> FALSE, tariff_data |-> tariff_data],
                        key)

GetRates(file, tariff_data) == GetTariffField(file, tariff_data, "rates")

GetTimePeriods(file, tariff_data) == GetTariffField(file, tariff_data, "time_periods")

---------------------------------------------------------------------------
(* SavingsCalculator.calculate_monthly_savings *)

Digit(n) == <<"0", "1", "2", "3", "4", "5", "6", "7", "8", "9">>[n + 1]

\* month.strftime('%Y-%m'): four digits of the year, a dash, two of the month.
StrftimeYm(month) ==
    <<Digit((month.year \div 1000) % 10), Digit((month.year \div 100) % 10),
      Digit((month.year \div 10) % 10), Digit(month.year % 10), "-",
      Digit(month.month \div 10), Digit(month.month % 10)>>

\* The handlers' state when a call ends.
Handlers(battery, market, tariff) ==
    [batteryData |-> battery, marketData |-> market, tariffData |-> tariff]

\* How many of the handler calls made read the file in: a read that was
\* attempted on a file that can be read.
FileReads(file, calls) ==
    Cardinality({i \in 1..Len(calls) : calls[i].read /\ file.readable})

\* How many of the parser calls made went through the document.
Parses(calls) == Cardinality({i \in 1..Len(calls) : calls[i].parsed})

\* The reads of one call of calculate_monthly_savings, by file.
Loads(battery, market, tariff) ==
    [battery |-> battery, market |-> market, tariff |-> tariff]

\* A call of calculate_monthly_savings that raised e after leaving the state h
\* and reading the files l times.
Failed(e, h, l) == [ok |-> FALSE, error |-> e, state |-> h, loads |-> l]

\* Mutant: the dict assembled without its total_savings entry.
SavingsAnalysisNoTotal(month, battery_summary, market_summary, savings_breakdown) ==
    [month              |-> StrftimeYm(month),
     battery_operations |-> battery_summary,
     market_conditions  |-> market_summary,
     savings_breakdown  |-> savings_breakdown]

\* The dict savings_analysis that calculate_monthly_savings returns.
SavingsAnalysis(month, battery_summary, market_summary, savings_breakdown) ==
    [month              |-> StrftimeYm(month),
     battery_operations |-> battery_summary,
     market_conditions  |-> market_summary,
     savings_breakdown  |-> savings_breakdown,
     total_savings      |-> savings_breakdown.total_savings]

\* calculate_monthly_savings(month): [ok, value, battery_window, market_window,
\* state, loads] or [ok, error, state, loads].  A step that raises ends the
\* call; what the earlier steps stored in the handlers stays.  The windows are
\* the month_start and month_end the two get_monthly_summary calls resolved;
\* loads counts the reads of each file the call made.
CalculateMonthlySavings(bFile, mFile, tFile, bData, mData, tData, month) ==
    LET parsed == ParsePdf(tFile, tData)
    IN  IF ~parsed.ok
        THEN Failed(parsed.error, Handlers(bData, mData, parsed.tariff_data),
                    Loads(0, 0, Parses(<<parsed>>)))
    ELSE
    LET rates == GetRates(tFile, parsed.tariff_data)
        time_periods == GetTimePeriods(tFile, rates.tariff_data)
        tariff == time_periods.tariff_data
        parses == Parses(<<parsed, rates, time_periods>>)
        battery == BatteryGetMonthlySummary(bFile, bData, month)
    IN  IF ~battery.ok
        THEN Failed(battery.error, Handlers(battery.data, mData, tariff),
                    Loads(FileReads(bFile, <<battery>>), 0, parses))
    ELSE
    LET charge == GetChargeData(bFile, battery.data)
    IN  IF ~charge.ok
        THEN Failed(charge.error, Handlers(charge.data, mData, tariff),
                    Loads(FileReads(bFile, <<battery, charge>>), 0, parses))
    ELSE
    LET discharge == GetDischargeData(bFile, charge.data)
        bReads == FileReads(bFile, <<battery, charge, discharge>>)
    IN  IF ~discharge.ok
        THEN Failed(discharge.error, Handlers(discharge.data, mData, tariff),
                    Loads(bReads, 0, parses))
    ELSE
    LET market == MarketGetMonthlySummary(mFile, mData, month)
    IN  IF ~market.ok
        THEN Failed(market.error, Handlers(discharge.data, market.data, tariff),
                    Loads(bReads, FileReads(mFile, <<market>>), parses))
    ELSE
    LET price == GetPriceData(mFile, market.data)
        l == Loads(bReads, FileReads(mFile, <<market, price>>), parses)
    IN  IF ~price.ok
        THEN Failed(price.error, Handlers(discharge.data, price.data, tariff), l)
    ELSE
    LET breakdown == CalculateSavingsBreakdown(charge.value, discharge.value, price.value,
                                               rates.value, time_periods.value)
        h == Handlers(discharge.data, price.data, tariff)
    IN  IF ~breakdown.ok THEN Failed(breakdown.error, h, l)
        ELSE [ok |-> TRUE,
              value |-> SavingsAnalysis(month, battery.value, market.value, breakdown.value),
              battery_window |-> battery.window,
              market_window  |-> market.window,
              state |-> h,
              loads |-> l]

---------------------------------------------------------------------------
(* The command-line entry points: main() of main.py and of src/main.py *)

\* datetime.strptime(text, '%Y-%m'), text held as its two numbers
\* [year, month]: day 1, 00:00:00 of that month, ValueError when the month
\* is not one.
Strptime(text) ==
    IF text.month \in 1..12
    THEN Return(DateTime(text.year, text.month, 1, 0, 0, 0, 0))
    ELSE Raise("ValueError")

\* Path(file_path).exists()
PathExists(file) == "missing" \notin DOMAIN file

\* An exception object of the class named.
Exc(class) == [op |-> "exception", class |-> class]

\* What a run of main() did: the lines it printed, the exception that was
\* raised inside it (None when none was) and the exception that left main()
\* uncaught (None when main() returned).
MainResult(printed, raised, escaped) ==
    [printed |-> printed, raised |-> raised, escaped |-> escaped]

\* display_savings_analysis(savings): every entry it formats is read by key.
DisplaySavingsAnalysis(savings) ==
    IF /\ {"month", "battery_operations", "market_conditions", "savings_breakdown"}
              \subseteq DOMAIN savings
       /\ {"total_charge", "total_discharge", "avg_soc", "charge_cycles", "discharge_cycles"}
              \subseteq DOMAIN savings.battery_operations
       /\ {"avg_price", "max_price", "min_price", "peak_hours", "off_peak_hours"}
              \subseteq DOMAIN savings.market_conditions
       /\ {"total_savings", "energy_cost_reduction", "peak_demand_reduction"}
              \subseteq DOMAIN savings.savings_breakdown
       /\ FGt(savings.savings_breakdown.total_savings, Zero) =>
              {"energy_cost_savings", "demand_charge_savings", "other_savings"}
                  \subseteq DOMAIN savings.savings_breakdown
    THEN Return("analysis")
    ELSE Raise("KeyError")

\* save_savings_analysis(savings, output_path): open() raises OSError on a
\* path that cannot be written.
SaveSavingsAnalysis(savings, output) ==
    IF output.writable THEN Return("Analysis saved to") ELSE Raise("OSError")

\* The try block of main() of main.py once calculate_monthly_savings has
\* returned or raised: display, save, and the except clause.
MainAfter(argv, savings) ==
    IF ~savings.ok
    THEN MainResult(<<"Error: ">>, Exc(savings.error), None)
    ELSE
    LET shown == DisplaySavingsAnalysis(savings.value)
    IN  IF ~shown.ok THEN MainResult(<<"Error: ">>, Exc(shown.error), None)
        ELSE IF argv.output = None THEN MainResult(<<shown.value>>, None, None)
        ELSE LET saved == SaveSavingsAnalysis(savings.value, argv.output)
             IN  IF ~saved.ok
                 THEN MainResult(<<shown.value, "Error: ">>, Exc(saved.error), None)
                 ELSE MainResult(<<shown.value, saved.value>>, None, None)

\* main() of main.py.  argv is [month, output, now]: --month (None when not
\* given), --output (None when not given) and the time datetime.now() gives.
Main(argv, bFile, mFile, tFile) ==
    LET parsed == IF argv.month = None THEN Return(None) ELSE Strptime(argv.month)
    IN  IF ~parsed.ok
        THEN MainResult(<<"Error: Month must be in YYYY-MM format">>, None, None)
        ELSE IF ~(PathExists(tFile) /\ PathExists(bFile) /\ PathExists(mFile))
        THEN MainResult(<<"Error: File not found">>, None, None)
        ELSE
        LET month == IF parsed.value = None THEN argv.now ELSE parsed.value
        IN  MainAfter(argv, CalculateMonthlySavings(bFile, mFile, tFile,
                                                    None, None, None, month))

\* main() of src/main.py once calculate_monthly_savings has returned or
\* raised: nothing catches what it raised, and the call of
\* get_optimization_recommendations, a method SavingsCalculator does not
\* have, raises AttributeError before anything is saved or printed.
PackageMainAfter(argv, savings) ==
    IF ~savings.ok
    THEN MainResult(<<>>, Exc(savings.error), Exc(savings.error))
    ELSE MainResult(<<>>, Exc("AttributeError"), Exc("AttributeError"))

\* main() of src/main.py: no try around the calculator.
PackageMain(argv, bFile, mFile, tFile) ==
    LET parsed == IF argv.month = None THEN Return(None) ELSE Strptime(argv.month)
    IN  IF ~parsed.ok
        THEN MainResult(<<"Error: Month must be in YYYY-MM format">>, None, None)
        ELSE
        LET month == IF parsed.value = None THEN argv.now ELSE parsed.value
        IN  PackageMainAfter(argv, CalculateMonthlySavings(bFile, mFile, tFile,
                                                           None, None, None, month))

---------------------------------------------------------------------------
(* Inputs *)

\* The number of timestamps the series of a direct breakdown call draw on.
BreakdownStamps == 2

\* The i-th timestamp of the inputs, ascending in i: 2024-11-15 12:30:00,
\* 2024-12-01 00:00:00, 2024-12-15 12:30:00, 2025-01-01 00:00:00, ...
Stamp(i) ==
    LET m == 2024 * 12 + 10 + (i \div 2)
    IN  IF i % 2 = 0
        THEN DateTime(m \div 12, (m % 12) + 1, 1, 0, 0, 0, 0)
        ELSE DateTime(m \div 12, (m % 12) + 1, 15, 12, 30, 0, 0)

\* The series over the stamps S with the values f, in ascending order.
SeriesOf(n, S, f) ==
    LET idx == SelectSeq([i \in 1..n |-> i], LAMBDA i : i \in S)
    IN  [j \in 1..Len(idx) |-> [ts |-> Stamp(idx[j]), v |-> f[idx[j]]]]

\* Every duplicate-free ascending series over the first n stamps with values in V.
AllSeries(n, V) ==
    UNION {{SeriesOf(n, S, f) : f \in [S -> V]} : S \in SUBSET (1..n)}

PowerValues == {Num(0), Num(2)}

PriceValues == {Rat(1, 10), Rat(3, 10), Rat(-1, 10)}

DemandPeak(v) == [type |-> "demand_peak", value |-> Num(v)]

EnergyPeak(v) == [type |-> "energy_peak", value |-> Num(v)]

\* The rate lists of a direct breakdown call: none, one demand_peak rate,
\* two demand_peak rates after another type, an entry without 'type' first
\* in the list and after a demand_peak rate, an entry of another type
\* without 'value', and a demand_peak entry without 'value'.
RateLists ==
    { <<>>,
      <<DemandPeak(5)>>,
      <<EnergyPeak(7), DemandPeak(10), DemandPeak(5)>>,
      <<[value |-> Num(5)]>>,
      <<DemandPeak(5), [value |-> Num(5)]>>,
      <<[type |-> "energy_peak"], DemandPeak(5)>>,
      <<EnergyPeak(7), [type |-> "demand_peak"]>> }

NoArgs == [op |-> "none"]

\* A tariff document whose pages state a demand_peak rate of 5, or nothing.
TariffFile(openable, stated) ==
    [openable |-> openable, pages |-> IF stated THEN <<DemandPeak(5)>> ELSE <<>>]

\* The number of timestamps the rows of the data files draw on.
FileStamps == 3

\* The most rows a data file holds.
MaxRows == 2

\* The text of the i-th timestamp, as a file holds it.
StampCell(i) ==
    <<Stamp(i).year, Stamp(i).month, Stamp(i).day,
      Stamp(i).hour, Stamp(i).minute, Stamp(i).second>>

DataFile(ext, readable, columns, rows) ==
    [ext |-> ext, readable |-> readable, columns |-> columns, rows |-> rows]

Reverse(s) == [i \in 1..Len(s) |-> s[Len(s) + 1 - i]]

\* The rows of the stamps S with the cells f, in ascending or descending order.
\* (Which of the two a file has does not show after load_data has sorted.)
FileRows(S, f, descending) ==
    LET idx == SelectSeq([i \in 1..FileStamps |-> i], LAMBDA i : i \in S)
        rows == [j \in 1..Len(idx) |-> f[idx[j]]]
    IN  IF descending THEN Reverse(rows) ELSE rows

RowSets == {S \in SUBSET (1..FileStamps) : Cardinality(S) <= MaxRows}

\* A battery row: the battery charges (2 kW in, 80 % full) or discharges
\* (2 kW out, 20 % full).
BatteryRow(i, charging) ==
    [timestamp       |-> StampCell(i),
     charge_power    |-> IF charging THEN Num(2) ELSE Num(0),
     discharge_power |-> IF charging THEN Num(0) ELSE Num(2),
     state_of_charge |-> IF charging THEN Num(80) ELSE Num(20)]

MarketRow(i, price) == [timestamp |-> StampCell(i), price |-> price]

BatteryColumns == {"timestamp", "charge_power", "discharge_power", "state_of_charge"}

MarketColumns == {"timestamp", "price"}

\* Well-formed battery files: any rows; two or more are out of order in the
\* file, latest first, so that load_data has to sort them.
GoodBatteryFiles ==
    UNION {{DataFile("csv", TRUE, BatteryColumns,
                     FileRows(S, [i \in S |-> BatteryRow(i, c[i])], d))
              : c \in [S -> BOOLEAN], d \in {Cardinality(S) > 1}}
           : S \in RowSets}

\* Well-formed market files.
GoodMarketFiles ==
    UNION {{DataFile("csv", TRUE, MarketColumns,
                     FileRows(S, [i \in S |-> MarketRow(i, q[i])], d))
              : q \in [S -> {Rat(1, 10), Rat(3, 10)}], d \in {Cardinality(S) > 1}}
           : S \in RowSets}

SomeBatteryFile ==
    DataFile("csv", TRUE, BatteryColumns, <<BatteryRow(3, FALSE), BatteryRow(2, TRUE)>>)

SomeMarketFile ==
    DataFile("csv", TRUE, MarketColumns, <<MarketRow(3, Rat(3, 10)), MarketRow(2, Rat(1, 10))>>)

\* A timestamp cell that names no date: month 13.
BadCell == <<2024, 13, 1, 0, 0, 0>>

WithoutColumn(file, column) ==
    [file EXCEPT !.columns = file.columns \ {column},
                 !.rows = [i \in 1..Len(file.rows) |->
                             [c \in file.columns \ {column} |-> file.rows[i][c]]]]

\* The other files a handler can be pointed at: a JSON file, a file of
\* another format, an unreadable file, a file with an unparsable timestamp,
\* and files that lack a column.
OtherFiles(file, column) ==
    { [file EXCEPT !.ext = "json"],
      [file EXCEPT !.ext = "txt"],
      [file EXCEPT !.readable = FALSE],
      [file EXCEPT !.rows[2].timestamp = BadCell],
      WithoutColumn(file, "timestamp"),
      WithoutColumn(file, column) }

\* The month arguments of the calls.
MonthArgs ==
    { DateTime(2024, 11, 30, 8, 0, 0, 0),
      DateTime(2024, 12, 29, 13, 45, 30, 500),
      DateTime(2025, 1, 15, 12, 0, 0, 0) }

\* The reads of a file are counted up to this many.
MaxLoads == 2

NoLoads == Loads(0, 0, 0)

Min(a, b) == IF a < b THEN a ELSE b

\* The counts after a call that read the files l times more.
AddLoads(counted, l) ==
    [f \in DOMAIN counted |-> Min(counted[f] + l[f], MaxLoads)]

---------------------------------------------------------------------------
(* Calls of calculate_monthly_savings on one SavingsCalculator *)

\* SavingsCalculator.__init__: nothing is loaded.  The files are any of the
\* above and do not change afterwards.
Init ==
    /\ \/ /\ batteryFile \in GoodBatteryFiles
          /\ marketFile \in GoodMarketFiles
          /\ tariffFile = TariffFile(TRUE, TRUE)
       \/ /\ batteryFile \in OtherFiles(SomeBatteryFile, "state_of_charge")
          /\ marketFile = SomeMarketFile
          /\ tariffFile = TariffFile(TRUE, TRUE)
       \/ /\ batteryFile = SomeBatteryFile
          /\ marketFile \in OtherFiles(SomeMarketFile, "price")
          /\ tariffFile = TariffFile(TRUE, TRUE)
       \/ /\ batteryFile = SomeBatteryFile
          /\ marketFile = SomeMarketFile
          /\ tariffFile \in {TariffFile(FALSE, TRUE), TariffFile(TRUE, FALSE)}
    /\ batteryData = None
    /\ marketData = None
    /\ tariffData = None
    /\ args = NoArgs
    /\ call = None
    /\ first = None
    /\ loads = NoLoads

\* calculator.calculate_monthly_savings(month); month=None stands for any
\* month, the one datetime.now() falls in.  call.again tells a later call from
\* the first one.
Calculate(month) ==
    \E r \in {CalculateMonthlySavings(batteryFile, marketFile, tariffFile,
                                     batteryData, marketData, tariffData, month)} :
    LET done == [op |-> "calculate", month |-> month, again |-> first # None] @@
                [k \in DOMAIN r \ {"state", "loads"} |-> r[k]]
    IN  /\ args = NoArgs
        /\ batteryData' = r.state.batteryData
        /\ marketData' = r.state.marketData
        /\ tariffData' = r.state.tariffData
        /\ call' = done
        /\ first' = IF first = None THEN done ELSE first
        /\ loads' = AddLoads(loads, r.loads)
        /\ UNCHANGED <<batteryFile, marketFile, tariffFile, args>>

Next == \E month \in MonthArgs : Calculate(month)

Spec == Init /\ [][Next]_vars

---------------------------------------------------------------------------
(* Direct calls of _calculate_savings_breakdown *)

InitBreakdown ==
    /\ batteryFile = None
    /\ marketFile = None
    /\ tariffFile = None
    /\ batteryData = None
    /\ marketData = None
    /\ tariffData = None
    /\ first = None
    /\ call = None
    /\ loads = NoLoads
    /\ args \in [op : {"breakdown"},
                 charge : AllSeries(BreakdownStamps, PowerValues),
                 discharge : AllSeries(BreakdownStamps, PowerValues),
                 price : AllSeries(BreakdownStamps, PriceValues),
                 rates : RateLists]

BreakdownCall ==
    /\ args.op = "breakdown"
    /\ call = None
    /\ \E r \in {CalculateSavingsBreakdown(args.charge, args.discharge, args.price,
                                             args.rates, <<>>)} :
          call' = [op |-> "breakdown"] @@ r
    /\ UNCHANGED <<batteryFile, marketFile, tariffFile, batteryData, marketData,
                   tariffData, args, first, loads>>

NextBreakdown == BreakdownCall

SpecBreakdown == InitBreakdown /\ [][NextBreakdown]_vars

---------------------------------------------------------------------------
(* Direct calls of the two data handlers *)

\* What a handler call leaves in the variable call: its result without the
\* table, which is in batteryData or marketData.
Outcome(r) == [k \in DOMAIN r \ {"data"} |-> r[k]]

\* battery_handler.load_data()
LoadBattery ==
    \E r \in {LoadData(batteryFile, batteryData)} :
        /\ args = NoArgs
        /\ batteryData' = r.data
        /\ call' = [op |-> "load_data", handler |-> "battery"] @@ Outcome(r)
        /\ loads' = AddLoads(loads, Loads(FileReads(batteryFile, <<r>>), 0, 0))
        /\ UNCHANGED <<batteryFile, marketFile, tariffFile, marketData, tariffData,
                       args, first>>

\* market_handler.load_data()
LoadMarket ==
    \E r \in {LoadData(marketFile, marketData)} :
        /\ args = NoArgs
        /\ marketData' = r.data
        /\ call' = [op |-> "load_data", handler |-> "market"] @@ Outcome(r)
        /\ loads' = AddLoads(loads, Loads(0, FileReads(marketFile, <<r>>), 0))
        /\ UNCHANGED <<batteryFile, marketFile, tariffFile, batteryData, tariffData,
                       args, first>>

\* battery_handler.get_charge_data(), get_discharge_data() and get_soc_data(),
\* by the column each returns.
GetBatteryData(column) ==
    \E r \in {GetColumnData(batteryFile, batteryData, column)} :
        /\ args = NoArgs
        /\ batteryData' = r.data
        /\ call' = [op |-> "get_data", handler |-> "battery", column |-> column] @@
                   Outcome(r)
        /\ loads' = AddLoads(loads, Loads(FileReads(batteryFile, <<r>>), 0, 0))
        /\ UNCHANGED <<batteryFile, marketFile, tariffFile, marketData, tariffData,
                       args, first>>

\* market_handler.get_price_data()
GetMarketData ==
    \E r \in {GetPriceData(marketFile, marketData)} :
        /\ args = NoArgs
        /\ marketData' = r.data
        /\ call' = [op |-> "get_data", handler |-> "market", column |-> "price"] @@
                   Outcome(r)
        /\ loads' = AddLoads(loads, Loads(0, FileReads(marketFile, <<r>>), 0))
        /\ UNCHANGED <<batteryFile, marketFile, tariffFile, batteryData, tariffData,
                       args, first>>

\* battery_handler.get_monthly_summary(month)
SummariseBattery(month) ==
    \E r \in {BatteryGetMonthlySummary(batteryFile, batteryData, month)} :
        /\ args = NoArgs
        /\ batteryData' = r.data
        /\ call' = [op |-> "get_monthly_summary", handler |-> "battery", month |-> month] @@
                   Outcome(r)
        /\ loads' = AddLoads(loads, Loads(FileReads(batteryFile, <<r>>), 0, 0))
        /\ UNCHANGED <<batteryFile, marketFile, tariffFile, marketData, tariffData,
                       args, first>>

\* market_handler.get_monthly_summary(month)
SummariseMarket(month) ==
    \E r \in {MarketGetMonthlySummary(marketFile, marketData, month)} :
        /\ args = NoArgs
        /\ marketData' = r.data
        /\ call' = [op |-> "get_monthly_summary", handler |-> "market", month |-> month] @@
                   Outcome(r)
        /\ loads' = AddLoads(loads, Loads(0, FileReads(marketFile, <<r>>), 0))
        /\ UNCHANGED <<batteryFile, marketFile, tariffFile, batteryData, tariffData,
                       args, first>>

BatteryColumnsRead == {"charge_power", "discharge_power", "state_of_charge"}

NextHandlers ==
    \/ LoadBattery
    \/ LoadMarket
    \/ \E month \in MonthArgs : SummariseBattery(month)
    \/ \E month \in MonthArgs : SummariseMarket(month)

SpecHandlers == Init /\ [][NextHandlers]_vars

\* The accessors of the two handlers and calculate_monthly_savings, in any
\* order, on one SavingsCalculator; load_data is called by them only.
NextAccess ==
    \/ \E column \in BatteryColumnsRead : GetBatteryData(column)
    \/ GetMarketData
    \/ \E month \in MonthArgs : SummariseBattery(month)
    \/ \E month \in MonthArgs : SummariseMarket(month)
    \/ \E month \in MonthArgs : Calculate(month)

\* One of the two files is any of the files above, the other a well-formed one.
InitAccess ==
    /\ \/ /\ batteryFile \in GoodBatteryFiles \cup
                             OtherFiles(SomeBatteryFile, "state_of_charge")
          /\ marketFile = SomeMarketFile
       \/ /\ batteryFile = SomeBatteryFile
          /\ marketFile \in GoodMarketFiles \cup OtherFiles(SomeMarketFile, "price")
    /\ tariffFile \in {TariffFile(TRUE, TRUE), TariffFile(FALSE, TRUE)}
    /\ batteryData = None
    /\ marketData = None
    /\ tariffData = None
    /\ args = NoArgs
    /\ call = None
    /\ first = None
    /\ loads = NoLoads

SpecAccess == InitAccess /\ [][NextAccess]_vars

---------------------------------------------------------------------------
(* Runs of the command-line entry points *)

\* A path that names no file.
Missing(file) ==
    [x \in DOMAIN file \cup {"missing"} |->
        IF x = "missing" THEN TRUE
        ELSE IF x \in {"readable", "openable"} THEN FALSE
        ELSE file[x]]

\* The --month arguments: not given, two months, and a month that is none.
MonthTexts ==
    {None, [year |-> 2024, month |-> 11], [year |-> 2024, month |-> 12],
     [year |-> 2024, month |-> 13]}

\* The --output arguments: not given, a path that can be written, one that cannot.
Outputs == {None, [writable |-> TRUE], [writable |-> FALSE]}

\* One run of one entry point over files of any kind; each run builds its
\* own SavingsCalculator.
InitMain ==
    /\ batteryFile \in {SomeBatteryFile, Missing(SomeBatteryFile)}
                           \cup OtherFiles(SomeBatteryFile, "state_of_charge")
    /\ marketFile \in {SomeMarketFile, Missing(SomeMarketFile)}
                          \cup OtherFiles(SomeMarketFile, "price")
    /\ tariffFile \in {TariffFile(TRUE, TRUE), TariffFile(FALSE, TRUE),
                        Missing(TariffFile(TRUE, TRUE))}
    /\ batteryData = None
    /\ marketData = None
    /\ tariffData = None
    /\ first = None
    /\ call = None
    /\ loads = NoLoads
    /\ args \in [op : {"main"}, entry : {"main.py", "src/main.py"}, month : MonthTexts,
                  output : Outputs, now : {DateTime(2024, 12, 29, 13, 45, 30, 500)}]

\* python main.py --tariff ... --battery-data ... --market-data ...
RunMain ==
    /\ args.op = "main"
    /\ args.entry = "main.py"
    /\ call = None
    /\ \E r \in {Main(args, batteryFile, marketFile, tariffFile)} :
          call' = [op |-> "main", entry |-> args.entry] @@ r
    /\ UNCHANGED <<batteryFile, marketFile, tariffFile, batteryData, marketData,
                   tariffData, args, first, loads>>

\* python src/main.py --tariff ... --battery-data ... --market-data ...
RunPackageMain ==
    /\ args.op = "main"
    /\ args.entry = "src/main.py"
    /\ call = None
    /\ \E r \in {PackageMain(args, batteryFile, marketFile, tariffFile)} :
          call' = [op |-> "main", entry |-> args.entry] @@ r
    /\ UNCHANGED <<batteryFile, marketFile, tariffFile, batteryData, marketData,
                   tariffData, args, first, loads>>

NextMain == RunMain \/ RunPackageMain

SpecMain == InitMain /\ [][NextMain]_vars

---------------------------------------------------------------------------
(* What the claims speak of, stated on the arguments of the call *)

Labels(series) == {series[i].ts : i \in 1..Len(series)}

\* The value a series holds at a label of its index.
ValueOf(series, t) == (CHOOSE r \in Range(series) : r.ts = t).v

\* The timestamps the three argument series share.
CommonStamps == Labels(args.charge) \cap Labels(args.discharge) \cap Labels(args.price)

\* The sum over the timestamps T of a[t] * b[t].
RECURSIVE SumProducts(_, _, _)
SumProducts(T, a, b) ==
    IF T = {} THEN Zero
    ELSE LET t == CHOOSE x \in T : TRUE
         IN  FAdd(FMul(ValueOf(a, t), ValueOf(b, t)), SumProducts(T \ {t}, a, b))

Returned == call.op = "breakdown" /\ call.ok

Ascending(index) == \A i \in 1..(Len(index) - 1) : DtLess(index[i], index[i + 1])

---------------------------------------------------------------------------
(* Claims C1..C5, under SpecBreakdown *)

\* C1: in every breakdown returned, total_savings == energy_cost_savings +
\* demand_charge_savings + other_savings (Python's ==).
C1_BreakdownAdditive ==
    Returned =>
        FEq(call.value.total_savings,
            FAdd(FAdd(call.value.energy_cost_savings, call.value.demand_charge_savings),
                 call.value.other_savings))

\* C2: energy_cost_savings is the sum over the common timestamps of
\* discharge * price minus the sum over them of charge * price.
C2_EnergyCostSavings ==
    Returned =>
        call.value.energy_cost_savings =
            FSub(SumProducts(CommonStamps, args.discharge, args.price),
                 SumProducts(CommonStamps, args.charge, args.price))

\* The example of C2: a charge of 2 at price 0.10, a discharge of 2 at price
\* 0.30 at another timestamp, and energy_cost_savings of 0.40.
C2_Witness ==
    /\ Returned
    /\ args.charge = <<[ts |-> Stamp(1), v |-> Num(2)], [ts |-> Stamp(2), v |-> Num(0)]>>
    /\ args.discharge = <<[ts |-> Stamp(1), v |-> Num(0)], [ts |-> Stamp(2), v |-> Num(2)]>>
    /\ args.price = <<[ts |-> Stamp(1), v |-> Rat(1, 10)], [ts |-> Stamp(2), v |-> Rat(3, 10)]>>
    /\ call.value.energy_cost_savings = Rat(40, 100)

\* C3: the alignment step succeeds and leaves three series over one index,
\* which holds exactly the common timestamps in ascending order, each series
\* with the values it had at those timestamps.
C3_Alignment ==
    call.op = "breakdown" =>
        /\ call.aligned # None
        /\ Index(call.aligned.charge) = Index(call.aligned.discharge)
        /\ Index(call.aligned.charge) = Index(call.aligned.price)
        /\ Len(call.aligned.charge) = Len(call.aligned.discharge)
        /\ Len(call.aligned.charge) = Len(call.aligned.price)
        /\ Labels(call.aligned.charge) = CommonStamps
        /\ Len(call.aligned.charge) = Cardinality(CommonStamps)
        /\ Ascending(Index(call.aligned.charge))
        /\ \A i \in 1..Len(call.aligned.charge) :
              /\ call.aligned.charge[i].v = ValueOf(args.charge, call.aligned.charge[i].ts)
              /\ call.aligned.discharge[i].v = ValueOf(args.discharge, call.aligned.charge[i].ts)
              /\ call.aligned.price[i].v = ValueOf(args.price, call.aligned.charge[i].ts)

\* A call whose three series have different timestamp sets, two of them in common
\* with one another but only one with the price series.
C3_Witness ==
    /\ call.op = "breakdown"
    /\ Len(args.charge) = 2
    /\ Len(args.discharge) = 2
    /\ Len(args.price) = 1
    /\ Len(call.aligned.charge) = 1

\* C4: when the three series share no timestamp (and the rate lookup itself
\* does not raise), the call returns and all six metrics are 0.
C4_EmptyWindowZero ==
    (call.op = "breakdown" /\ CommonStamps = {} /\ NextDemandPeak(args.rates, 1).ok) =>
        /\ call.ok
        /\ FEq(call.value.energy_cost_savings, Zero)
        /\ FEq(call.value.demand_charge_savings, Zero)
        /\ FEq(call.value.other_savings, Zero)
        /\ FEq(call.value.total_savings, Zero)
        /\ FEq(call.value.energy_cost_reduction, Zero)
        /\ FEq(call.value.peak_demand_reduction, Zero)

AllChargeZero == \A t \in CommonStamps : ValueOf(args.charge, t) = Zero

\* C5: when every charge value of the aligned window is 0, the call raises
\* nothing on account of the division (it raises only when the rate lookup
\* does) and energy_cost_reduction is 0.
C5_ZeroChargeNoDivision ==
    (call.op = "breakdown" /\ AllChargeZero) =>
        IF NextDemandPeak(args.rates, 1).ok
        THEN call.ok /\ FEq(call.value.energy_cost_reduction, Zero)
        ELSE ~call.ok

\* A non-empty window with no charge and a discharge at a non-zero price.
C5_Witness ==
    /\ Returned
    /\ AllChargeZero
    /\ \E t \in CommonStamps :
          /\ ValueOf(args.discharge, t) = Num(2)
          /\ ValueOf(args.price, t) = Rat(3, 10)
    /\ call.value.energy_cost_reduction = Zero

---------------------------------------------------------------------------
(* Claims C6..C10, under Spec *)

\* Day 1, 00:00:00 of the month a datetime falls in.
FirstOfMonth(t) == DateTime(t.year, t.month, 1, 0, 0, 0, 0)

\* Day 1, 00:00:00 of the month after it.
FirstOfNextMonth(t) ==
    IF t.month = 12 THEN DateTime(t.year + 1, 1, 1, 0, 0, 0, 0)
    ELSE DateTime(t.year, t.month + 1, 1, 0, 0, 0, 0)

\* The loaded table cut to the rows with first of month <= t < first of next month.
HalfOpenMonth(frame, month) ==
    [frame EXCEPT !.rows = SelectSeq(frame.rows, LAMBDA r :
        DtLe(FirstOfMonth(month), r.ts) /\ DtLess(r.ts, FirstOfNextMonth(month)))]

Reported == call.op = "calculate" /\ call.ok

\* C6: the two summaries of a report are computed over exactly the rows with
\* month_start <= t < next_month_start.
C6_HalfOpenWindow ==
    Reported =>
        /\ call.value.battery_operations =
               BatterySummaryOf(HalfOpenMonth(batteryData, call.month))
        /\ call.value.market_conditions =
               MarketSummaryOf(HalfOpenMonth(marketData, call.month))

\* C7: whatever day and time the month argument carries, both summary windows
\* start at day 1 00:00:00 of its month and end at day 1 00:00:00 of the
\* next month, January of the next year after December.
C7_MonthBoundaries ==
    Reported =>
        /\ call.battery_window =
               [start |-> FirstOfMonth(call.month), end |-> FirstOfNextMonth(call.month)]
        /\ call.market_window =
               [start |-> FirstOfMonth(call.month), end |-> FirstOfNextMonth(call.month)]

\* A report for 2024-12-29 13:45:30.000500 whose windows end at 2025-01-01 00:00:00.
C7_Witness ==
    /\ Reported
    /\ call.month = DateTime(2024, 12, 29, 13, 45, 30, 500)
    /\ call.battery_window.start = DateTime(2024, 12, 1, 0, 0, 0, 0)
    /\ call.battery_window.end = DateTime(2025, 1, 1, 0, 0, 0, 0)
    /\ call.market_window.end = DateTime(2025, 1, 1, 0, 0, 0, 0)

\* C8: a later call with the month of the first call gives what the first
\* call gave: it fails if that failed, and returns the same report otherwise.
C8_Idempotent ==
    (call.op = "calculate" /\ call.again /\ call.month = first.month) =>
        /\ call.ok = first.ok
        /\ call.ok => call.value = first.value

\* A second report for the month of the first, over files that hold rows,
\* after a call for another month or not.
C8_Witness ==
    /\ Reported
    /\ call.again
    /\ call.month = first.month
    /\ call.value = first.value
    /\ Len(batteryFile.rows) = 2
    /\ Len(marketFile.rows) = 2
    /\ call.value.battery_operations.charge_cycles > 0

ReportFields ==
    {"month", "battery_operations", "market_conditions", "savings_breakdown", "total_savings"}

\* C9: a call either fails, returning nothing, or returns a report that holds
\* all five fields.
C9_AllOrNothing ==
    call.op = "calculate" =>
        IF call.ok THEN DOMAIN call.value = ReportFields
        ELSE "value" \notin DOMAIN call

\* A call that failed at the market data after the battery data was loaded
\* and summarised.
C9_Witness ==
    /\ call.op = "calculate"
    /\ ~call.ok
    /\ batteryData # None
    /\ batteryData.index = "timestamp"
    /\ marketData = None

\* C10: the savings_breakdown of every report holds arbitrage_opportunities,
\* total_savings, number_of_opportunities and average_savings_per_opportunity.
C10_ArbitrageKeys ==
    Reported =>
        {"arbitrage_opportunities", "total_savings", "number_of_opportunities",
         "average_savings_per_opportunity"} \subseteq DOMAIN call.value.savings_breakdown

---------------------------------------------------------------------------
(* Claims C11..C13, under Spec *)

\* a >= b on floats.
FGe(a, b) == FLe(b, a)

\* The sum over a list of opportunities of price_difference * energy.
RECURSIVE SumOpportunities(_, _)
SumOpportunities(opps, i) ==
    IF i > Len(opps) THEN Zero
    ELSE FAdd(FMul(opps[i].price_difference, opps[i].energy), SumOpportunities(opps, i + 1))

\* C11: the savings_breakdown of every report has a list arbitrage_opportunities,
\* and every opportunity in it has discharge_price > charge_price,
\* price_difference == discharge_price - charge_price and energy > 0.
C11_ArbitrageInvariant ==
    Reported =>
        /\ "arbitrage_opportunities" \in DOMAIN call.value.savings_breakdown
        /\ \A i \in 1..Len(call.value.savings_breakdown.arbitrage_opportunities) :
              LET opp == call.value.savings_breakdown.arbitrage_opportunities[i]
              IN  /\ FGt(opp.discharge_price, opp.charge_price)
                  /\ FEq(opp.price_difference, FSub(opp.discharge_price, opp.charge_price))
                  /\ FGt(opp.energy, Zero)

\* C12: in every report, the sum over arbitrage_opportunities of
\* price_difference * energy is within 0.01 of savings_breakdown.total_savings.
C12_ArbitrageTotal ==
    Reported =>
        /\ "arbitrage_opportunities" \in DOMAIN call.value.savings_breakdown
        /\ LET diff == FSub(SumOpportunities(
                                call.value.savings_breakdown.arbitrage_opportunities, 1),
                            call.value.savings_breakdown.total_savings)
           IN  FGt(Rat(1, 100), diff) /\ FGt(diff, Rat(-1, 100))

\* C13: in every report, total_savings and savings_breakdown.total_savings
\* are both >= 0.
C13_NonNegativeTotal ==
    Reported =>
        /\ FGe(call.value.total_savings, Zero)
        /\ FGe(call.value.savings_breakdown.total_savings, Zero)

---------------------------------------------------------------------------
(* Claims C15 and C20, under SpecBreakdown *)

\* A rate list with an entry that lacks 'type' or 'value'.
Malformed(rates) ==
    \E i \in 1..Len(rates) : ~({"type", "value"} \subseteq DOMAIN rates[i])

\* C15: a direct call with a rate list in which some entry lacks 'type' or
\* 'value', at any position, raises and returns no breakdown.
C15_MalformedRatesRaise ==
    (call.op = "breakdown" /\ Malformed(args.rates)) => ~call.ok

\* C20: every breakdown returned holds other_savings, which is 0, and
\* total_savings is the float that energy_cost_savings + demand_charge_savings
\* + other_savings yields.
C20_OtherSavingsZero ==
    Returned =>
        /\ "other_savings" \in DOMAIN call.value
        /\ FEq(call.value.other_savings, Zero)
        /\ call.value.total_savings =
               FAdd(FAdd(call.value.energy_cost_savings, call.value.demand_charge_savings),
                    Zero)

\* A breakdown over a window with a discharge of 2 at a demand_peak rate of 5:
\* other_savings is 0 beside demand_charge_savings of 2 and a total that is not 0.
C20_Witness ==
    /\ Returned
    /\ \E t \in CommonStamps : ValueOf(args.discharge, t) = Num(2)
    /\ args.rates = <<DemandPeak(5)>>
    /\ call.value.demand_charge_savings = Num(2)
    /\ call.value.other_savings = Zero
    /\ call.value.total_savings # Zero

---------------------------------------------------------------------------
(* Claims C16..C19, under SpecHandlers *)

\* The file and the cached data of the handler the last call was made on.
FileOf(handler) == IF handler = "battery" THEN batteryFile ELSE marketFile

DataOf(handler) == IF handler = "battery" THEN batteryData ELSE marketData

\* C16: load_data on a handler whose path ends in neither .csv nor .json
\* raises, attempts no read of the file and leaves self.data None.
C16_UnsupportedFormat ==
    (call.op = "load_data" /\ FileOf(call.handler).ext \notin {"csv", "json"}) =>
        /\ ~call.ok
        /\ ~call.read
        /\ DataOf(call.handler) = None

\* load_data on the battery handler of a readable, well-formed .txt file,
\* after the market data was loaded.
C16_Witness ==
    /\ call.op = "load_data"
    /\ call.handler = "battery"
    /\ batteryFile.ext = "txt"
    /\ batteryFile.readable
    /\ ~call.ok
    /\ batteryData = None
    /\ marketData # None

\* C17: a load_data call that fails raises an error that carries the
\* original cause and the path of the file.
C17_LoadFailureContext ==
    (call.op = "load_data" /\ ~call.ok) =>
        /\ call.cause \in {"ValueError", "OSError"}
        /\ call.names_path

\* C18: after a get_monthly_summary(month) that returned on the market
\* handler, peak_hours + off_peak_hours is the number of rows of self.data.
C18_PeakPlusOffPeak ==
    (call.op = "get_monthly_summary" /\ call.handler = "market" /\ call.ok) =>
        call.value.peak_hours + call.value.off_peak_hours = Len(marketData.rows)

\* C19: the summary of any month has min_soc <= avg_soc <= max_soc on the
\* battery handler and min_price <= avg_price <= max_price on the market handler.
C19_MinAvgMax ==
    (call.op = "get_monthly_summary" /\ call.ok) =>
        IF call.handler = "battery"
        THEN FLe(call.value.min_soc, call.value.avg_soc) /\
             FLe(call.value.avg_soc, call.value.max_soc)
        ELSE FLe(call.value.min_price, call.value.avg_price) /\
             FLe(call.value.avg_price, call.value.max_price)

---------------------------------------------------------------------------
(* Claim C14, under SpecMain *)

\* C14: no exception leaves main() of either entry point, and a run in which
\* the calculator raised ends with an "Error: " line printed.
C14_MainCatchesErrors ==
    call.op = "main" =>
        /\ call.escaped = None
        /\ call.raised # None =>
              Len(call.printed) > 0 /\ call.printed[Len(call.printed)] = "Error: "


---------------------------------------------------------------------------
(* Claims C21, C23 and C24: what is loaded, and how often *)

Accessors == {"get_data", "get_monthly_summary"}

\* C21: an accessor called on a handler whose file does not load fails with
\* the load's failure, and the handler's table is still unset afterwards.
C21_FailedLoadRetried ==
    (call.op \in Accessors /\ ~LoadData(FileOf(call.handler), None).ok) =>
        /\ ~call.ok
        /\ call.error = "Exception"
        /\ DataOf(call.handler) = None

\* C23: across any sequence of accessor calls and calculate_monthly_savings
\* calls, each source file is read in at most once, and a handler holding
\* its table has read its file exactly once.
C23_SourceFilesLoadedOnce ==
    /\ loads.battery <= 1
    /\ loads.market <= 1
    /\ batteryData # None => loads.battery = 1
    /\ marketData # None => loads.market = 1

\* A second report from calculate_monthly_savings, after which each source
\* file has been read in once.
C23_Witness ==
    /\ Reported
    /\ call.again
    /\ first.ok
    /\ loads.battery = 1
    /\ loads.market = 1

\* C24: across any number of calculate_monthly_savings calls the tariff
\* document is parsed at most once.
C24_TariffParsedOnce == loads.tariff <= 1

---------------------------------------------------------------------------
(* Claims C22 and C26..C28, under SpecBreakdown *)

\* The value of the first demand_peak entry of a rate list, 0 without one.
FirstDemandPeakRate(rates) ==
    LET found == {i \in 1..Len(rates) : "type" \in DOMAIN rates[i] /\
                                         rates[i].type = "demand_peak"}
    IN  IF found = {} THEN Zero
        ELSE rates[CHOOSE i \in found : \A j \in found : i <= j].value

\* The greatest of the values of a series at the timestamps T, T not empty.
GreatestOver(T, a) ==
    CHOOSE v \in {ValueOf(a, t) : t \in T} : \A t \in T : FLe(ValueOf(a, t), v)

\* The sum over the timestamps T of a[t].
RECURSIVE SumValues(_, _)
SumValues(T, a) ==
    IF T = {} THEN Zero
    ELSE LET t == CHOOSE x \in T : TRUE
         IN  FAdd(ValueOf(a, t), SumValues(T \ {t}, a))

MeanOver(T, a) == FDiv(SumValues(T, a), Num(Cardinality(T)))

\* C22: in every breakdown returned, energy_cost_reduction is
\* energy_cost_savings / sum(charge * price) * 100 whenever that sum is not
\* zero, negative sums included, and 0 when it is zero.
C22_ReductionUnlessZeroCost ==
    Returned =>
        LET cost == SumProducts(CommonStamps, args.charge, args.price)
        IN  call.value.energy_cost_reduction =
                IF FEq(cost, Zero) THEN Zero
                ELSE FMul(FDiv(call.value.energy_cost_savings, cost), Num(100))

\* C26: the demand-peak rate of a breakdown returned is the value of the first
\* demand_peak entry of the rates in their order, 0 when there is none.
C26_FirstDemandPeakRate ==
    Returned => call.peak_rate = FirstDemandPeakRate(args.rates)

\* A breakdown returned for rates holding two demand_peak entries of
\* different values after an entry of another type.
C26_Witness ==
    /\ Returned
    /\ args.rates = <<EnergyPeak(7), DemandPeak(10), DemandPeak(5)>>
    /\ call.peak_rate = Num(10)

\* C27: over a non-empty aligned window, demand_charge_savings is
\* (peak_without - peak_with) * peak_rate, peak_without the greatest aligned
\* discharge and peak_with = peak_without * 0.8.
C27_DemandChargeSavings ==
    (Returned /\ CommonStamps # {}) =>
        LET peak_without == GreatestOver(CommonStamps, args.discharge)
            peak_with    == FMul(peak_without, Rat(8, 10))
        IN  call.value.demand_charge_savings =
                FMul(FSub(peak_without, peak_with), FirstDemandPeakRate(args.rates))

\* A breakdown with a discharge of 2 at a demand-peak rate of 10: savings 4.
C27_Witness ==
    /\ Returned
    /\ CommonStamps # {}
    /\ GreatestOver(CommonStamps, args.discharge) = Num(2)
    /\ FirstDemandPeakRate(args.rates) = Num(10)
    /\ call.value.demand_charge_savings = Num(4)

\* C28: peak_demand_reduction is peak / (peak + mean(discharge)) * 100 over
\* the aligned window when the peak discharge is above 0, and 0 otherwise.
C28_PeakDemandReduction ==
    Returned =>
        call.value.peak_demand_reduction =
            IF CommonStamps # {} /\ FGt(GreatestOver(CommonStamps, args.discharge), Zero)
            THEN LET peak_demand == GreatestOver(CommonStamps, args.discharge)
                 IN  FMul(FDiv(peak_demand,
                               FAdd(peak_demand, MeanOver(CommonStamps, args.discharge))),
                          Num(100))
            ELSE Zero

\* A breakdown over two aligned timestamps with discharges 2 and 0:
\* 2 / (2 + 1) * 100.
C28_Witness ==
    /\ Returned
    /\ Cardinality(CommonStamps) = 2
    /\ {ValueOf(args.discharge, t) : t \in CommonStamps} = {Num(0), Num(2)}
    /\ call.value.peak_demand_reduction = Rat(200, 3)

---------------------------------------------------------------------------
(* Claims C25 and C29, under Spec *)

\* The timestamps the loaded battery and market tables share.
LoadedStamps ==
    {r.ts : r \in Range(batteryData.rows)} \cap {r.ts : r \in Range(marketData.rows)}

\* C25: the savings_breakdown of a report is the one of the three full
\* columns, the same as in the first report whatever its month, while the
\* two summaries cover the rows of the requested month only.
C25_BreakdownWholeSeries ==
    Reported =>
        /\ first.ok => call.value.savings_breakdown = first.value.savings_breakdown
        /\ call.value.savings_breakdown =
               CalculateSavingsBreakdown(Column(batteryData, "charge_power"),
                                         Column(batteryData, "discharge_power"),
                                         Column(marketData, "price"), <<>>, <<>>).value
        /\ call.value.battery_operations =
               BatterySummaryOf(HalfOpenMonth(batteryData, call.month))
        /\ call.value.market_conditions =
               MarketSummaryOf(HalfOpenMonth(marketData, call.month))

===========================================================================
